---- MODULE Spec2Model ----
(***************************************************************************)
(* polyscan: sliding-window nucleotide frequency scan (src/src/main.rs).   *)
(* The module models the parameter resolution (threshold_count, user_idx,  *)
(* comp_idx), the per-record scan (priming of freq, first-window check,    *)
(* the evict / insert / evaluate slide loop) and the BED records written.  *)
(* f64 arithmetic is modelled bit-exactly (round-to-nearest-even on 53-bit *)
(* significands) over arbitrary-precision naturals kept as limb sequences. *)
(***************************************************************************)
EXTENDS Integers, Sequences, FiniteSets, TLC

(***************************************************************************)
(* Bounds of the model.                                                    *)
(***************************************************************************)
MaxLen == 3          \* longest sequence of the single-record specification
MaxRecords == 2      \* most records of the multi-record specification
MaxLenMulti == 2     \* longest sequence of the multi-record specification
MaxWThreshold == 25  \* largest window size of the threshold specification

(***************************************************************************)
(* Arbitrary-precision naturals: little-endian sequences of limbs in       *)
(* 0..Base-1 without leading zero limbs; <<>> is zero.  They carry the     *)
(* 53-bit significands of f64 values, which do not fit a 32-bit integer.   *)
(***************************************************************************)
Base == 32768
LimbBits == 15

RECURSIVE Pow2(_)
Pow2(n) == IF n = 0 THEN 1 ELSE 2 * Pow2(n - 1)

RECURSIVE Trim(_)
Trim(x) == IF x = <<>> THEN <<>>
           ELSE IF x[Len(x)] = 0 THEN Trim(SubSeq(x, 1, Len(x) - 1))
           ELSE x

RECURSIVE BigFromNat(_)
BigFromNat(n) == IF n = 0 THEN <<>>
                 ELSE <<n % Base>> \o BigFromNat(n \div Base)

RECURSIVE BigToNat(_)
BigToNat(x) == IF x = <<>> THEN 0
               ELSE x[1] + Base * BigToNat(Tail(x))

\* x * k + carry, for 0 <= k <= Base
RECURSIVE MulSmallC(_, _, _)
MulSmallC(x, k, carry) ==
    IF x = <<>> THEN BigFromNat(carry)
    ELSE LET t == x[1] * k + carry
         IN  <<t % Base>> \o MulSmallC(Tail(x), k, t \div Base)

MulSmall(x, k) == Trim(MulSmallC(x, k, 0))

\* x * 2^n
RECURSIVE MulPow2(_, _)
MulPow2(x, n) ==
    IF n = 0 THEN x
    ELSE IF n >= LimbBits THEN MulPow2(IF x = <<>> THEN <<>> ELSE <<0>> \o x, n - LimbBits)
    ELSE MulSmall(x, Pow2(n))

\* long division of x by d (1 <= d <= Base), most significant limb first
RECURSIVE DivSmallR(_, _, _, _)
DivSmallR(x, d, i, rem) ==
    IF i = 0 THEN [q |-> <<>>, r |-> rem]
    ELSE LET cur  == rem * Base + x[i]
             rest == DivSmallR(x, d, i - 1, cur % d)
         IN  [q |-> rest.q \o <<cur \div d>>, r |-> rest.r]

DivSmall(x, d) == LET res == DivSmallR(x, d, Len(x), 0)
                  IN  [q |-> Trim(res.q), r |-> res.r]

RECURSIVE BitLenNat(_)
BitLenNat(n) == IF n = 0 THEN 0 ELSE 1 + BitLenNat(n \div 2)

BitLen(x) == IF x = <<>> THEN 0
             ELSE LimbBits * (Len(x) - 1) + BitLenNat(x[Len(x)])

IsOdd(x) == x # <<>> /\ x[1] % 2 = 1

AddSmall(x, k) == Trim(MulSmallC(x, 1, k))

\* x shifted right by sh bits, with the guard bit (the last bit shifted
\* out) and the sticky bit (the OR of all earlier bits shifted out)
RECURSIVE ShiftRight(_, _, _, _)
ShiftRight(x, sh, guard, sticky) ==
    IF sh = 0 THEN [q |-> x, guard |-> guard, sticky |-> sticky]
    ELSE LET c  == IF sh >= LimbBits THEN LimbBits ELSE sh
             dv == DivSmall(x, Pow2(c))
             h  == Pow2(c - 1)
         IN  ShiftRight(dv.q, sh - c, dv.r >= h,
                        guard \/ sticky \/ (dv.r % h # 0))

(***************************************************************************)
(* f64 values that occur in the program: NaN, +infinity, and the finite    *)
(* non-negative values m * 2^e (m a natural of at most 54 bits, the 54th   *)
(* only for the exact power 2^53 * 2^e).                                   *)
(***************************************************************************)
SigBits == 53
DivExtra == 70

F64NaN == [k |-> "nan", m |-> <<>>, e |-> 0]
F64Inf == [k |-> "inf", m |-> <<>>, e |-> 0]
F64Fin(m, e) == [k |-> "fin", m |-> m, e |-> e]
F64IsZero(a) == a.k = "fin" /\ a.m = <<>>

\* `n as f64` for a natural below 2^31 (exact)
F64FromNat(n) == F64Fin(BigFromNat(n), 0)

\* the f64 nearest to x * 2^e, ties to even
F64Round(x, e) ==
    LET len == BitLen(x)
    IN  IF len <= SigBits THEN F64Fin(x, e)
        ELSE LET s  == ShiftRight(x, len - SigBits, FALSE, FALSE)
                 up == s.guard /\ (s.sticky \/ IsOdd(s.q))
             IN  F64Fin(IF up THEN AddSmall(s.q, 1) ELSE s.q, e + len - SigBits)

\* a / (d as f64), d a natural
F64DivNat(a, d) ==
    IF a.k = "nan" THEN F64NaN
    ELSE IF a.k = "inf" THEN F64Inf
    ELSE IF d = 0 THEN (IF F64IsZero(a) THEN F64NaN ELSE F64Inf)
    ELSE IF F64IsZero(a) THEN a
    ELSE LET dv == DivSmall(MulPow2(a.m, DivExtra), d)
             x  == AddSmall(MulSmall(dv.q, 2), IF dv.r # 0 THEN 1 ELSE 0)
         IN  F64Round(x, a.e - DivExtra - 1)

\* a * (n as f64), n a natural
F64MulNat(a, n) ==
    IF a.k = "nan" THEN F64NaN
    ELSE IF a.k = "inf" THEN (IF n = 0 THEN F64NaN ELSE F64Inf)
    ELSE F64Round(MulSmall(a.m, n), a.e)

\* a.ceil() as an unsigned integer: NaN casts to 0, +infinity saturates
\* (reported as -1 here, written out by U64ToString)
F64CeilToUint(a) ==
    IF a.k = "nan" THEN 0
    ELSE IF a.k = "inf" THEN -1
    ELSE IF a.e >= 0 THEN BigToNat(MulPow2(a.m, a.e))
    ELSE LET s == ShiftRight(a.m, -a.e, FALSE, FALSE)
         IN  BigToNat(s.q) + (IF s.guard \/ s.sticky THEN 1 ELSE 0)

\* a decimal argument with two fractional digits, given in hundredths,
\* parsed to the nearest f64
ParseF64(hundredths) == F64DivNat(F64FromNat(hundredths), 100)

(***************************************************************************)
(* Bytes and parameter resolution (main.rs lines 36-97).                   *)
(***************************************************************************)
ChA == 65
ChC == 67
ChG == 71
ChN == 78
ChT == 84
ChX == 88
LowerOffset == 32

None == -1

nuc_to_index(nuc) ==
    IF nuc = ChA \/ nuc = ChA + LowerOffset THEN 0
    ELSE IF nuc = ChC \/ nuc = ChC + LowerOffset THEN 1
    ELSE IF nuc = ChG \/ nuc = ChG + LowerOffset THEN 2
    ELSE IF nuc = ChT \/ nuc = ChT + LowerOffset THEN 3
    ELSE IF nuc = ChN \/ nuc = ChN + LowerOffset THEN 4
    ELSE None

complement_char_selfN(c) ==
    IF c = ChA THEN ChT
    ELSE IF c = ChT THEN ChA
    ELSE IF c = ChC THEN ChG
    ELSE IF c = ChG THEN ChC
    ELSE ChA

complement_char(c) ==
    IF c = ChA THEN ChT
    ELSE IF c = ChT THEN ChA
    ELSE IF c = ChC THEN ChG
    ELSE IF c = ChG THEN ChC
    ELSE ChN

BaseChars == {ChA, ChC, ChG, ChT, ChN}

\* let threshold_count: usize = ((p / 100.0) * (w as f64)).ceil() as usize
ThresholdCount(hundredths, win) ==
    F64CeilToUint(F64MulNat(F64DivNat(ParseF64(hundredths), 100), win))

(***************************************************************************)
(* State.                                                                  *)
(***************************************************************************)
VARIABLES
    records,          \* the FASTA records, in file order: [id, seq]
    w,                \* args.window_size
    p100,             \* args.percentage as typed, in hundredths
    base_char,        \* the validated, upper-cased nucleotide
    threshold_count,  \* resolved once, line 66
    consumed,         \* number of records the reader has yielded
    pc,               \* "next": at the head of the record loop,
                      \* "slide": inside the slide loop of a record,
                      \* "done": main returned, "panic": main panicked
    start,            \* start of the window last evaluated
    freq,             \* the [A,C,G,T,N] counts of the current record
    clamped,          \* TRUE once saturating_sub met a slot at zero
    out               \* the BED records written, in order

vars == <<records, w, p100, base_char, threshold_count, consumed, pc, start,
          freq, clamped, out>>

user_idx == nuc_to_index(base_char)
comp_idx == nuc_to_index(complement_char(base_char))

\* seq[i] with the 0-based index of the source
Byte(seq, i) == seq[i + 1]

ZeroFreq == [i \in 0..4 |-> 0]

FreshFreqStale == freq

\* let mut freq = [0_usize; 5]
FreshFreq == ZeroFreq

InsertNucSkip(f, nuc) == f

\* if let Some(i) = nuc_to_index(nuc) { freq[i] += 1; }
InsertNuc(f, nuc) ==
    LET i == nuc_to_index(nuc)
    IN  IF i = None THEN f ELSE [f EXCEPT ![i] = @ + 1]

EvictNucKeep(f, nuc) == f

\* if let Some(i) = nuc_to_index(leaving) { freq[i] = freq[i].saturating_sub(1); }
EvictNuc(f, nuc) ==
    LET i == nuc_to_index(nuc)
    IN  IF i = None THEN f
        ELSE [f EXCEPT ![i] = IF @ = 0 THEN 0 ELSE @ - 1]

\* saturating_sub clamps when the slot of a recognised byte is zero
EvictClamps(f, nuc) ==
    LET i == nuc_to_index(nuc)
    IN  i # None /\ f[i] = 0

\* for &nuc in &seq[0..w] { ... freq[i] += 1 }
RECURSIVE PrimeFrom(_, _, _, _)
PrimeFrom(f, seq, i, win) ==
    IF i >= win THEN f
    ELSE PrimeFrom(InsertNuc(f, Byte(seq, i)), seq, i + 1, win)

\* let leaving = seq[start - 1]
Leaving(seq, st) == Byte(seq, st - 1)

\* let entering = seq[start + w - 1]
Entering(seq, st, win) == Byte(seq, st + win - 1)

TooShortNever(seq, win) == FALSE

\* if seq.len() < w { continue; }
TooShort(seq, win) == Len(seq) < win

PassesStrict(count, threshold) == count > threshold

\* user_count >= threshold_count
Passes(count, threshold) == count >= threshold

\* (count as f64 / w as f64) * 100.0
Perc(count, win) == F64MulNat(F64DivNat(F64FromNat(count), win), 100)

\* ceil_int.to_string() for a u64; the saturated cast is u64::MAX
U64ToString(n) == IF n = -1 THEN "18446744073709551615" ELSE ToString(n)

write_bed_record(chrom, st, end, name, score_percentage, strand_symbol) ==
    [chrom  |-> chrom,
     start  |-> st,
     end    |-> end,
     name   |-> name,
     perc   |-> score_percentage,
     score  |-> U64ToString(F64CeilToUint(score_percentage)),
     strand |-> strand_symbol]

MinusNameComplement == complement_char(base_char)

\* the name passed for a minus-strand record: base_char, lines 195 and 236
MinusName == base_char

PlusRecord(f, chrom, st) ==
    IF Passes(f[user_idx], threshold_count)
    THEN <<write_bed_record(chrom, st, st + w, base_char,
                            Perc(f[user_idx], w), "+")>>
    ELSE <<>>

MinusRecord(f, chrom, st) ==
    IF Passes(f[comp_idx], threshold_count)
    THEN <<write_bed_record(chrom, st, st + w, MinusName,
                            Perc(f[comp_idx], w), "-")>>
    ELSE <<>>

EvaluateMinusFirst(f, chrom, st) == MinusRecord(f, chrom, st) \o PlusRecord(f, chrom, st)

\* the two checks of a window, lines 182-196 and 211-240
Evaluate(f, chrom, st) == PlusRecord(f, chrom, st) \o MinusRecord(f, chrom, st)

(***************************************************************************)
(* The scan of one record taken alone, lines 165-241, as a function.       *)
(***************************************************************************)
RECURSIVE SlideFrom(_, _, _, _)
SlideFrom(f, chrom, seq, st) ==
    IF st > Len(seq) - w THEN <<>>
    ELSE LET g == InsertNuc(EvictNuc(f, Leaving(seq, st)), Entering(seq, st, w))
         IN  Evaluate(g, chrom, st) \o SlideFrom(g, chrom, seq, st + 1)

ScanAlone(rec) ==
    IF Len(rec.seq) < w THEN <<>>
    ELSE LET f == PrimeFrom(ZeroFreq, rec.seq, 0, w)
         IN  Evaluate(f, rec.id, 0) \o SlideFrom(f, rec.id, rec.seq, 1)

(***************************************************************************)
(* Inputs.                                                                 *)
(***************************************************************************)
RECURSIVE SeqsUpTo(_, _)
SeqsUpTo(S, n) ==
    IF n = 0 THEN {<<>>}
    ELSE LET shorter == SeqsUpTo(S, n - 1)
         IN  shorter \cup {Append(s, x) : s \in {t \in shorter : Len(t) = n - 1}, x \in S}

Alphabet == {ChA, ChA + LowerOffset, ChC, ChG + LowerOffset, ChT, ChN, ChX}
AlphabetMulti == {ChA + LowerOffset, ChX}

RecordIds == <<"chr1", "chr2", "chr3", "chr4">>

\* the record lists whose sequences are drawn from seqs, ids in file order
RecordLists(seqs, n) ==
    {[i \in 1..Len(ss) |-> [id |-> RecordIds[i], seq |-> ss[i]]] : ss \in SeqsUpTo(seqs, n)}

Percentages == {5000, 8000}
PercentagesThreshold == {100 * i : i \in 50..100} \cup {7901}

Resolved(rs, win, pct, base) ==
    /\ records = rs
    /\ w = win
    /\ p100 = pct
    /\ base_char = base
    /\ threshold_count = ThresholdCount(pct, win)
    /\ consumed = 0
    /\ pc = "next"
    /\ start = 0
    /\ freq = ZeroFreq
    /\ clamped = FALSE
    /\ out = <<>>

\* one record, every window size up to one beyond the longest sequence
Init ==
    \E rs \in {r \in RecordLists(SeqsUpTo(Alphabet, MaxLen), 1) : Len(r) = 1},
       win \in 0..(MaxLen + 1), pct \in Percentages, base \in BaseChars :
        Resolved(rs, win, pct, base)

\* several records
InitMulti ==
    \E rs \in RecordLists(SeqsUpTo(AlphabetMulti, MaxLenMulti), MaxRecords),
       win \in 0..(MaxLenMulti + 1), pct \in {5000}, base \in {ChA, ChT} :
        Resolved(rs, win, pct, base)

\* many percentages and window sizes over one fixed record
InitThreshold ==
    \E win \in (1..MaxWThreshold) \cup {100}, pct \in PercentagesThreshold :
        Resolved(<<[id |-> RecordIds[1], seq |-> <<ChA, ChA, ChT>>]>>, win, pct, ChA)

(***************************************************************************)
(* Actions.                                                                *)
(***************************************************************************)
CurSeq == records[consumed].seq
CurId == records[consumed].id

\* the head of the record loop for the next record: the length test,
\* the priming of freq and the check of the first window (lines 160-197)
ReadRecord ==
    /\ pc = "next"
    /\ consumed < Len(records)
    /\ consumed' = consumed + 1
    /\ LET rec == records[consumed + 1]
       IN  IF TooShort(rec.seq, w)
           THEN /\ pc' = "next"
                /\ UNCHANGED <<start, freq, out>>
           ELSE IF w > Len(rec.seq)
           THEN \* &seq[0..w] is out of range
                /\ pc' = "panic"
                /\ UNCHANGED <<start, freq, out>>
           ELSE LET f == PrimeFrom(FreshFreq, rec.seq, 0, w)
                IN  /\ freq' = f
                    /\ start' = 0
                    /\ out' = out \o Evaluate(f, rec.id, 0)
                    /\ pc' = "slide"
    /\ UNCHANGED <<records, w, p100, base_char, threshold_count, clamped>>

\* one iteration of the slide loop (lines 200-241)
Slide ==
    /\ pc = "slide"
    /\ start + 1 <= Len(CurSeq) - w
    /\ LET st == start + 1
           leaving == Leaving(CurSeq, st)
           entering == Entering(CurSeq, st, w)
           f == InsertNuc(EvictNuc(freq, leaving), entering)
       IN  /\ start' = st
           /\ clamped' = (clamped \/ EvictClamps(freq, leaving))
           /\ freq' = f
           /\ out' = out \o Evaluate(f, CurId, st)
    /\ UNCHANGED <<records, w, p100, base_char, threshold_count, consumed, pc>>

\* the slide loop of the record is exhausted
EndRecord ==
    /\ pc = "slide"
    /\ start + 1 > Len(CurSeq) - w
    /\ pc' = "next"
    /\ UNCHANGED <<records, w, p100, base_char, threshold_count, consumed,
                   start, freq, clamped, out>>

\* the reader has no more records: Ok(())
Finish ==
    /\ pc = "next"
    /\ consumed = Len(records)
    /\ pc' = "done"
    /\ UNCHANGED <<records, w, p100, base_char, threshold_count, consumed,
                   start, freq, clamped, out>>

Next == ReadRecord \/ Slide \/ EndRecord \/ Finish

Spec == Init /\ [][Next]_vars
SpecMulti == InitMulti /\ [][Next]_vars
SpecThreshold == InitThreshold /\ [][Next]_vars

(***************************************************************************)
(* Reference definitions for the properties: counts taken from scratch.    *)
(***************************************************************************)
\* the number of bytes of seq[s .. s+win) that nuc_to_index sends to idx
CountClass(seq, s, win, idx) ==
    Cardinality({i \in s..(s + win - 1) : nuc_to_index(Byte(seq, i)) = idx})

FromScratch(seq, s, win) == [idx \in 0..4 |-> CountClass(seq, s, win, idx)]

Unrecognized(seq, s, win) == CountClass(seq, s, win, None)

SumFreq(f) == f[0] + f[1] + f[2] + f[3] + f[4]

Key(r) == <<r.start, r.end, r.strand>>
Keys(rs) == [i \in DOMAIN rs |-> Key(rs[i])]

\* the matches the emission rule asks of window s
ExpectedKeysAt(seq, s) ==
    (IF CountClass(seq, s, w, user_idx) >= threshold_count
     THEN <<(<<s, s + w, "+">>)>> ELSE <<>>)
    \o (IF CountClass(seq, s, w, comp_idx) >= threshold_count
        THEN <<(<<s, s + w, "-">>)>> ELSE <<>>)

\* ... of the windows 0 .. last, in window order
RECURSIVE ExpectedKeysUpTo(_, _)
ExpectedKeysUpTo(seq, last) ==
    IF last < 0 THEN <<>>
    ELSE ExpectedKeysUpTo(seq, last - 1) \o ExpectedKeysAt(seq, last)

RECURSIVE ConcatAlone(_)
ConcatAlone(n) == IF n = 0 THEN <<>>
                  ELSE ConcatAlone(n - 1) \o ScanAlone(records[n])

(***************************************************************************)
(* C1. Incremental update equivalence: whenever a window of size w >= 1    *)
(* has just been evaluated (window 0 after priming, window k after k       *)
(* evict/insert steps), every slot of freq equals the count obtained by    *)
(* classifying all bytes of [start, start+w) from scratch.                 *)
(***************************************************************************)
C1_IncrementalEquivalence ==
    (pc = "slide" /\ w >= 1) => freq = FromScratch(CurSeq, start, w)

C1_Witness ==
    /\ pc = "slide" /\ w >= 2 /\ start >= 1
    /\ nuc_to_index(Leaving(CurSeq, start)) # None
    /\ nuc_to_index(Entering(CurSeq, start, w)) = None
    /\ Leaving(CurSeq, start) = ChA + LowerOffset
    /\ SumFreq(freq) >= 1

(***************************************************************************)
(* C2. Emission rule: for a record with len >= w >= 1 the matches written  *)
(* up to the window just evaluated are exactly, window by window, a "+"    *)
(* match iff the target count of the window is >= threshold_count and a    *)
(* "-" match iff the complement count is >= threshold_count; at the end    *)
(* of the scan this covers every window start in [0, len-w].               *)
(***************************************************************************)
C2_EmissionRule ==
    /\ (pc = "slide" /\ w >= 1) => Keys(out) = ExpectedKeysUpTo(CurSeq, start)
    /\ (pc = "done" /\ w >= 1 /\ Len(records[1].seq) >= w)
          => Keys(out) = ExpectedKeysUpTo(records[1].seq, Len(records[1].seq) - w)

C2_Witness ==
    /\ pc = "done" /\ w >= 2 /\ Len(records[1].seq) > w
    /\ base_char # ChN
    /\ Len(out) = 3
    /\ out[1].start = out[2].start
    /\ out[3].start = 1

(***************************************************************************)
(* C3. Ordering: of any two matches written for a record the earlier one   *)
(* has the smaller start, or they have the same start and are the "+"      *)
(* match immediately followed by the "-" match.                            *)
(***************************************************************************)
C3_Ordering ==
    \A i, j \in DOMAIN out :
        i < j => \/ out[i].start < out[j].start
                 \/ /\ out[i].start = out[j].start
                    /\ out[i].strand = "+"
                    /\ out[j].strand = "-"
                    /\ j = i + 1

C3_Witness ==
    /\ pc = "done" /\ w >= 1 /\ Len(out) >= 4
    /\ out[1].start = out[2].start
    /\ out[3].start > out[2].start
    /\ out[4].start = out[3].start

(***************************************************************************)
(* C4. Window size zero: with w = 0 no match is ever written and main does *)
(* not panic.                                                              *)
(***************************************************************************)
C4_WindowZeroNoMatches == w = 0 => (out = <<>> /\ pc # "panic")

(***************************************************************************)
(* C5. No-match boundary: a record shorter than w contributes no match,    *)
(* whatever its bytes, main does not fail on it, and the records after it  *)
(* are read: main ends only when every record has been consumed.           *)
(***************************************************************************)
C5_ShortRecordSkipped ==
    /\ \A i \in 1..consumed :
          Len(records[i].seq) < w =>
              \A j \in DOMAIN out : out[j].chrom # records[i].id
    /\ pc # "panic"
    /\ pc = "done" => consumed = Len(records)

C5_Witness ==
    /\ pc = "done" /\ Len(records) = 2
    /\ records[1].seq # <<>> /\ Len(records[1].seq) < w
    /\ nuc_to_index(records[1].seq[1]) = user_idx
    /\ out # <<>>
    /\ \A j \in DOMAIN out : out[j].chrom = records[2].id

(***************************************************************************)
(* C6. Threshold rule: threshold_count is the least integer t with         *)
(* 100 * t >= p * w (p given in hundredths: 10000 * t >= p100 * w), hence  *)
(* ceil(w/2) <= threshold_count <= w.                                      *)
(***************************************************************************)
C6_ExactCeiling ==
    w >= 1 => /\ threshold_count = (p100 * w + 9999) \div 10000
              /\ (w + 1) \div 2 <= threshold_count
              /\ threshold_count <= w

(***************************************************************************)
(* C7. Self-complement duplication: in a scan for N the matches come in    *)
(* adjacent pairs, a "+" then a "-" with the same start, end and           *)
(* percentage, one pair for every window evaluated so far whose N count is *)
(* >= threshold_count and none for the other windows.                      *)
(***************************************************************************)
C7_SelfComplementPairs ==
    (base_char = ChN) =>
        /\ Len(out) % 2 = 0
        /\ \A i \in DOMAIN out :
              i % 2 = 1 =>
                  /\ out[i].strand = "+"
                  /\ out[i + 1].strand = "-"
                  /\ out[i + 1].start = out[i].start
                  /\ out[i + 1].end = out[i].end
                  /\ out[i + 1].perc = out[i].perc
                  /\ out[i + 1].score = out[i].score
        /\ pc = "slide" =>
              \A s \in 0..start :
                  Cardinality({i \in DOMAIN out : out[i].start = s})
                    = IF CountClass(CurSeq, s, w, 4) >= threshold_count
                      THEN 2 ELSE 0

C7_Witness ==
    /\ base_char = ChN /\ pc = "done" /\ w >= 2
    /\ Len(out) = 2
    /\ Len(records[1].seq) > w
    /\ out[1].score # "100"

(***************************************************************************)
(* C8. Symbol label: every match written, on either strand, is named with  *)
(* the nucleotide the user chose.                                          *)
(***************************************************************************)
C8_NameIsUserBase == \A i \in DOMAIN out : out[i].name = base_char

C8_Witness ==
    /\ base_char = ChC /\ w >= 2
    /\ \E i \in DOMAIN out : out[i].strand = "-" /\ out[i].start >= 1
    /\ \E i \in DOMAIN out : out[i].strand = "-" /\ out[i].start = 0

(***************************************************************************)
(* C9. Record independence: priming starts from an all-zero table for each *)
(* record, and whenever main is between records or has returned, the       *)
(* output is the concatenation, in record order, of what each consumed     *)
(* record yields when scanned alone.                                       *)
(***************************************************************************)
C9_RecordIndependence ==
    /\ (pc = "slide" /\ start = 0) => freq = PrimeFrom(ZeroFreq, CurSeq, 0, w)
    /\ pc \in {"next", "done"} => out = ConcatAlone(consumed)

C9_Witness ==
    /\ pc = "done" /\ Len(records) = 2 /\ w >= 1
    /\ SumFreq(freq) < w
    /\ \E i \in DOMAIN out : out[i].chrom = records[1].id
    /\ ScanAlone(records[2]) = <<>>
    /\ Len(records[2].seq) >= w

(***************************************************************************)
(* C10. Partition invariant: at every window evaluated with w >= 1 the     *)
(* five slots of freq plus the number of unrecognized bytes of the window  *)
(* sum to w, no slot exceeds w, and the saturating subtraction of the      *)
(* evict step has never met a slot at zero.                                *)
(***************************************************************************)
C10_Partition ==
    w >= 1 =>
        /\ ~clamped
        /\ pc = "slide" =>
              /\ SumFreq(freq) + Unrecognized(CurSeq, start, w) = w
              /\ \A i \in 0..4 : freq[i] <= w

C10_Witness ==
    /\ pc = "slide" /\ w >= 2 /\ start >= 1
    /\ Unrecognized(CurSeq, start, w) >= 1
    /\ SumFreq(freq) >= 1
    /\ nuc_to_index(Leaving(CurSeq, start)) # None

====
